---- MODULE Spec2Model ----
(***************************************************************************)
(* Model of the TripleHorseDeer / Brainfuck interpreter of src/THD.py.     *)
(*                                                                         *)
(* Characters are one-character strings.  The kana of the surrogate tokens *)
(* are written in ASCII: hiragana in lower case, katakana in upper case    *)
(* ("to" is U+3068, "TO" is U+30C8; they are different characters).        *)
(* Positions are 0-based as in the Python source; a TLA+ sequence s holds  *)
(* the character at Python position p in s[p+1].                           *)
(*                                                                         *)
(* numpy: mem is a uint8 array.  Indexing it with i in -n..-1 addresses    *)
(* cell i+n, any other i outside 0..n-1 raises IndexError; arithmetic on   *)
(* a cell and the store of an integer into a cell keep the value modulo    *)
(* 256 (the C cast of the numpy releases the code was written for).        *)
(* The variable mem holds the cells of the array whose value is not 0;     *)
(* every other cell of 0..mem_size-1 holds 0.                              *)
(***************************************************************************)
EXTENDS Integers, Sequences, FiniteSets, TLC

\* ------------------------------------------------------------------ bounds
MaxCodeLen == 3      \* longest program text of the engine specification
MaxMem == 2          \* largest tape length passed to run()
MaxBudget == 2       \* largest non-negative instruction budget passed to run()
MaxSteps == 520      \* cap on the step counter of a run with unlimited budget
MaxRuns == 2         \* run() invocations of the re-run specification
MaxRerunLen == 2     \* longest program text of the re-run specification
MaxBracketLen == 5   \* longest text of the validator specification
MaxTextLen == 3      \* longest canonical/noisy text given to the translator
MaxSurfLen == 2      \* longest raw surface text given to the translator
MaxWrapLen == 3      \* longest text of the cell-arithmetic specification
MaxKanaLen == 3      \* longest text of token characters given to the translator
MaxFairLen == 2      \* longest program text of the fair engine specification

\* ------------------------------------------------------------- the program
VARIABLES
    cls,            \* "Brainfuck" or "TripleHorseDeer": the class constructed
    canon,          \* the text given to _b2r (empty when _b2r is not called)
    text,           \* the code argument of the constructor
    pc,             \* position of the caller / constructor / run loop
    err,            \* the exception that ended the last call, or "none"
    \* TripleHorseDeer._r2b / _b2r locals
    rcode,          \* the StringIO being read: its content
    rpos,           \*   and its cursor (code.tell())
    rout,           \* out: the StringIO being written
    tc,             \* prefix-match length
    \* fields of the Brainfuck object
    attrs,          \* the attributes assigned so far on self
    return_output,  \* self.return_output
    output,         \* self.output: [content, pos] of a text stream
    input_eof,      \* self.input: TRUE once read(1) has returned ''
    code,           \* self.code
    jumps,          \* self.jumps
    c_len,          \* self.c_len
    \* run(): arguments, locals and result
    mem_size, max_instr,
    icnt, mem, buf_out, ip, dp,
    writes,         \* payloads output.write() received during this run()
    ret,            \* what the last run() returned
    calls_left      \* run() invocations the caller still makes

vars == <<cls, canon, text, pc, err, rcode, rpos, rout, tc, attrs, return_output,
          output, input_eof, code, jumps, c_len, mem_size, max_instr, icnt,
          mem, buf_out, ip, dp, writes, ret, calls_left>>

trVars == <<rcode, rpos, rout, tc>>
objVars == <<attrs, return_output, output, input_eof, code, jumps, c_len>>
runVars == <<mem_size, max_instr, icnt, mem, buf_out, ip, dp, writes, ret>>

\* Brainfuck.operators
operators == <<"+", "-", ">", "<", "[", "]", ".", ",">>

\* Mutant of rep_operators: the second token starts like the first.
rep_operatorsSharedFirst ==
    << <<"i", "nu", "i">>, <<"i", "ko">>, <<"A", "N">>, <<"KA", "TO">>,
       <<"sa", "n">>, <<"ba", "ka">>, <<"RI", "ZE">>, <<"E", "SU", "TA">> >>

\* TripleHorseDeer.rep_operators
rep_operators ==
    << <<"i", "nu", "i">>, <<"to", "ko">>, <<"A", "N">>, <<"KA", "TO">>,
       <<"sa", "n">>, <<"ba", "ka">>, <<"RI", "ZE">>, <<"E", "SU", "TA">> >>

OperatorSet == {operators[i] : i \in DOMAIN operators}
Kana == UNION {{rep_operators[i][j] : j \in DOMAIN rep_operators[i]} :
               i \in DOMAIN rep_operators}
Noise == {"x"}

\* All texts of at most n characters of the alphabet.
Texts(alphabet, n) == UNION {[1..k -> alphabet] : k \in 0..n}

\* list.index(x): the first (1-based here) position of x.
IndexOf(seq, x) == CHOOSE i \in DOMAIN seq : seq[i] = x /\ \A j \in 1..(i-1) : seq[j] # x

\* str.count(ch)
Count(s, ch) == Cardinality({i \in DOMAIN s : s[i] = ch})

\* Mutant of U8: stores saturate at the ends of the range instead of wrapping.
U8Saturate(v) == IF v < 0 THEN 0 ELSE IF v > 255 THEN 255 ELSE v

\* np.uint8: the value kept by a cell.
U8(v) == v % 256

\* -------------------------------------------------- Brainfuck.__init__
IsOperator(op) == op \in OperatorSet

\* Lines 66-70: keep the operators of the text, in order.
Strip(s) == SelectSeq(s, IsOperator)

\* Lines 82-91: the forward scan from ip with nesting counter heap; the
\* position of the matching "]", or -1 when the range is exhausted.
RECURSIVE ScanForward(_, _, _)
ScanForward(c, p, heap) ==
    IF p >= Len(c) THEN -1
    ELSE IF c[p+1] = "[" THEN ScanForward(c, p+1, heap+1)
    ELSE IF c[p+1] = "]"
         THEN IF heap = 0 THEN p ELSE ScanForward(c, p+1, heap-1)
    ELSE ScanForward(c, p+1, heap)

\* Lines 97-106: the backward scan.
RECURSIVE ScanBackward(_, _, _)
ScanBackward(c, p, heap) ==
    IF p < 0 THEN -1
    ELSE IF c[p+1] = "]" THEN ScanBackward(c, p-1, heap+1)
    ELSE IF c[p+1] = "["
         THEN IF heap = 0 THEN p ELSE ScanBackward(c, p-1, heap-1)
    ELSE ScanBackward(c, p-1, heap)

\* Mutant of MatchForward: the first "]" after d_ip, whatever the nesting.
MatchForwardFirstClose(c, d_ip) ==
    LET S == {p \in (d_ip+1)..(Len(c)-1) : c[p+1] = "]"}
    IN  IF S = {} THEN -1 ELSE CHOOSE p \in S : \A q \in S : p <= q

\* Mutant of MatchBackward: the scan starts at d_ip itself, not before it.
MatchBackwardFromSelf(c, d_ip) == ScanBackward(c, d_ip, 0)

\* Line 83: range(d_ip+1, self.c_len)
MatchForward(c, d_ip) == ScanForward(c, d_ip+1, 0)
\* Line 98: range(d_ip-1, -1, -1)
MatchBackward(c, d_ip) == ScanBackward(c, d_ip-1, 0)

\* dict assignment jumps[k] = v
Put(j, k, v) == [x \in (DOMAIN j) \cup {k} |-> IF x = k THEN v ELSE j[x]]

\* Lines 78-110: the discovery loop from d_ip with the table j built so far.
\* pos is the position of the bracket that raised, or -1.
RECURSIVE Discover(_, _, _)
Discover(c, d_ip, j) ==
    IF d_ip >= Len(c) THEN [jumps |-> j, pos |-> -1]
    ELSE IF c[d_ip+1] = "["
         THEN LET m == MatchForward(c, d_ip)
              IN  IF m = -1 THEN [jumps |-> j, pos |-> d_ip]
                  ELSE Discover(c, d_ip+1, Put(j, d_ip, m))
    ELSE IF c[d_ip+1] = "]"
         THEN LET m == MatchBackward(c, d_ip)
              IN  IF m = -1 THEN [jumps |-> j, pos |-> d_ip]
                  ELSE Discover(c, d_ip+1, Put(j, d_ip, m))
    ELSE Discover(c, d_ip+1, j)

EmptyDict == [x \in {} |-> 0]

\* Mutant of BrainfuckInitOn: no bracket count test before the discovery loop.
BrainfuckInitOnNoCount(t) ==
    /\ UNCHANGED <<return_output, output, input_eof>>
    /\ LET c == Strip(t)
           d == Discover(c, 0, EmptyDict)
       IN  /\ jumps' = d.jumps
           /\ c_len' = Len(c)
           /\ IF d.pos # -1
              THEN /\ err' = "BrainfuckError4"
                   /\ pc' = "rejected"
                   /\ attrs' = {"input", "return_output", "output",
                                "jumps", "c_len"}
                   /\ UNCHANGED code
              ELSE /\ err' = "none"
                   /\ pc' = "constructed"
                   /\ attrs' = {"input", "return_output", "output",
                                "jumps", "c_len", "code"}
                   /\ code' = c

\* Brainfuck.__init__(code): lines 49-112, on the text t.
BrainfuckInitOn(t) ==
    /\ UNCHANGED <<return_output, output, input_eof>>
    /\ IF Count(t, "[") # Count(t, "]")
       THEN /\ err' = "BrainfuckError1"
            /\ pc' = "rejected"
            /\ attrs' = {"input", "return_output", "output"}
            /\ UNCHANGED <<code, jumps, c_len>>
       ELSE LET c == Strip(t)
                d == Discover(c, 0, EmptyDict)
            IN  /\ jumps' = d.jumps
                /\ c_len' = Len(c)
                /\ IF d.pos # -1
                   THEN /\ err' = "BrainfuckError4"
                        /\ pc' = "rejected"
                        /\ attrs' = {"input", "return_output", "output",
                                     "jumps", "c_len"}
                        /\ UNCHANGED code
                   ELSE /\ err' = "none"
                        /\ pc' = "constructed"
                        /\ attrs' = {"input", "return_output", "output",
                                     "jumps", "c_len", "code"}
                        /\ code' = c

\* Brainfuck(code, input, output)
BrainfuckInit ==
    /\ pc = "new"
    /\ cls = "Brainfuck"
    /\ BrainfuckInitOn(text)
    /\ UNCHANGED <<cls, canon, text, calls_left>>
    /\ UNCHANGED trVars
    /\ UNCHANGED runVars

\* ------------------------------------------------------ TripleHorseDeer
\* Line 215: the token written for one character of the text.
TokenOf(t) == IF IsOperator(t) THEN rep_operators[IndexOf(operators, t)] ELSE << >>

\* _b2r(code): lines 206-217, the text from position i (1-based) on.
RECURSIVE B2rFrom(_, _)
B2rFrom(s, i) == IF i > Len(s) THEN << >> ELSE TokenOf(s[i]) \o B2rFrom(s, i+1)

B2r(s) == B2rFrom(s, 1)

\* Line 190: the tokens whose character at offset k is t, in list order.
Candidates(k, t) == SelectSeq(rep_operators, LAMBDA i : i[k+1] = t)

\* Mutant of SeekTarget: the rest of the token is not skipped.
SeekTargetNoSkip(pos, tok, k) == pos

\* Line 196: the cursor after the seek; pos is code.tell() after read(1).
SeekTarget(pos, tok, k) == pos + Len(tok) - k - 1

\* Mutant of OutNoMatch: a canonical operator is passed through.
OutNoMatchPassThrough(out, t) == IF IsOperator(t) THEN Append(out, t) ELSE out

\* Lines 191-193: what out holds after a character that matches no token.
OutNoMatch(out, t) == out

\* The caller translates canonical text to surface text with the class
\* method _b2r and hands the result to the constructor.
B2rCall ==
    /\ pc = "b2r"
    /\ text' = B2r(canon)
    /\ pc' = "new"
    /\ UNCHANGED <<cls, canon, calls_left, err>>
    /\ UNCHANGED trVars
    /\ UNCHANGED objVars
    /\ UNCHANGED runVars

\* TripleHorseDeer(code, ...): line 178 calls _r2b, lines 182-185.
R2bBegin ==
    /\ pc = "new"
    /\ cls = "TripleHorseDeer"
    /\ rcode' = text
    /\ rpos' = 0
    /\ rout' = << >>
    /\ tc' = 0
    /\ pc' = "r2b"
    /\ UNCHANGED <<cls, canon, text, calls_left, err>>
    /\ UNCHANGED objVars
    /\ UNCHANGED runVars

\* One iteration of the loop of _r2b that reads a character: lines 187-201.
\* i[tc] raises IndexError for a token of at most tc characters.
R2bStep ==
    /\ pc = "r2b"
    /\ rpos < Len(rcode)
    /\ LET t == rcode[rpos+1]
           pos == rpos + 1
       IN  IF \E i \in DOMAIN rep_operators : Len(rep_operators[i]) <= tc
           THEN /\ pc' = "rejected"
                /\ err' = "IndexError"
                /\ rpos' = pos
                /\ UNCHANGED <<rout, tc>>
           ELSE LET to == Candidates(tc, t)
                IN  IF Len(to) = 0
                    THEN /\ tc' = 0
                         /\ rpos' = pos
                         /\ rout' = OutNoMatch(rout, t)
                         /\ UNCHANGED <<pc, err>>
                    ELSE IF Len(to) = 1
                    THEN /\ rout' = Append(rout, operators[IndexOf(rep_operators, to[1])])
                         /\ rpos' = SeekTarget(pos, to[1], tc)
                         /\ tc' = 0
                         /\ UNCHANGED <<pc, err>>
                    ELSE IF \E n \in DOMAIN to : Len(to[n]) = tc + 1
                    THEN /\ pc' = "rejected"
                         /\ err' = "Exception"
                         /\ rpos' = pos
                         /\ UNCHANGED <<rout, tc>>
                    ELSE /\ tc' = tc + 1
                         /\ rpos' = pos
                         /\ UNCHANGED <<rout, pc, err>>
    /\ UNCHANGED rcode
    /\ UNCHANGED <<cls, canon, text, calls_left>>
    /\ UNCHANGED objVars
    /\ UNCHANGED runVars

\* read(1) returns '': lines 188-189, 202-203; line 178 reads the result
\* and line 179 hands it to Brainfuck.__init__.
R2bEnd ==
    /\ pc = "r2b"
    /\ rpos >= Len(rcode)
    /\ BrainfuckInitOn(rout)
    /\ UNCHANGED <<cls, canon, text, calls_left>>
    /\ UNCHANGED trVars
    /\ UNCHANGED runVars

\* ------------------------------------------------------- Brainfuck.run
\* str(buf_out, encoding='UTF-8'): the code points of the bytes b from
\* position i on, or <<-1>> when the bytes are not valid UTF-8.
Cont(b, i) == i <= Len(b) /\ b[i] >= 128 /\ b[i] <= 191

RECURSIVE Utf8From(_, _)
Utf8From(b, i) ==
    IF i > Len(b) THEN << >>
    ELSE LET x == b[i]
             n == IF x <= 127 THEN 1
                  ELSE IF x >= 194 /\ x <= 223 THEN 2
                  ELSE IF x >= 224 /\ x <= 239 THEN 3
                  ELSE IF x >= 240 /\ x <= 244 THEN 4
                  ELSE 0
             ok == /\ n # 0
                   /\ \A k \in 1..(n-1) : Cont(b, i+k)
                   /\ (x = 224 => b[i+1] >= 160)
                   /\ (x = 237 => b[i+1] <= 159)
                   /\ (x = 240 => b[i+1] >= 144)
                   /\ (x = 244 => b[i+1] <= 143)
             cp == IF n = 1 THEN x
                   ELSE IF n = 2 THEN (x % 32) * 64 + (b[i+1] % 64)
                   ELSE IF n = 3
                        THEN (x % 16) * 4096 + (b[i+1] % 64) * 64 + (b[i+2] % 64)
                   ELSE (x % 8) * 262144 + (b[i+1] % 64) * 4096
                        + (b[i+2] % 64) * 64 + (b[i+3] % 64)
         IN  IF ~ok THEN <<-1>>
             ELSE LET rest == Utf8From(b, i+n)
                  IN  IF rest = <<-1>> THEN <<-1>> ELSE <<cp>> \o rest

Utf8Decode(b) == Utf8From(b, 1)

\* A text stream s = [content, pos]: write(t), seek(0), read().
StreamWrite(s, t) ==
    [content |-> SubSeq(s.content, 1, s.pos) \o t
                 \o SubSeq(s.content, s.pos + Len(t) + 1, Len(s.content)),
     pos |-> s.pos + Len(t)]
StreamRead(s) == SubSeq(s.content, s.pos + 1, Len(s.content))

\* The bytes read(1) can deliver.
InputAlphabet == {0, 65, 128, 255}

\* numpy indexing of mem (length mem_size) with the index i.
InRange(i) == i >= -mem_size /\ i < mem_size
Index(i) == IF i < 0 THEN i + mem_size ELSE i

\* mem[i] read, and the array after mem[i] = v, for a cell i of 0..mem_size-1.
Cell(i) == IF i \in DOMAIN mem THEN mem[i] ELSE 0
Store(i, v) ==
    IF v = 0 THEN [x \in (DOMAIN mem) \ {i} |-> mem[x]]
    ELSE [x \in (DOMAIN mem) \cup {i} |-> IF x = i THEN v ELSE mem[x]]

NoRet == [some |-> FALSE, val |-> << >>]

\* Line 114: the defaults of run()'s parameters.
DefaultMemSize == 30000
DefaultMaxInstr == -1

\* run(mem_size = n, max_instr = b): lines 122-134.
RunWith(n, b) ==
    /\ pc \in {"constructed", "returned", "raised"}
    /\ calls_left > 0
    /\ calls_left' = calls_left - 1
    /\ mem_size' = n
    /\ max_instr' = b
    /\ mem' = EmptyDict
    /\ icnt' = 0
    /\ buf_out' = << >>
    /\ ip' = 0
    /\ dp' = 0
    /\ writes' = << >>
    /\ ret' = NoRet
    /\ err' = "none"
    /\ pc' = "running"
    /\ UNCHANGED <<cls, canon, text>>
    /\ UNCHANGED trVars
    /\ UNCHANGED objVars

\* Mutant of RunStart: the tape, the pointers and the output buffer of the
\* previous run are kept when there was one.
RunStartReuse ==
    /\ pc \in {"constructed", "returned", "raised"}
    /\ calls_left > 0
    /\ calls_left' = calls_left - 1
    /\ \E n \in 1..MaxMem, b \in -1..MaxBudget :
         /\ mem_size' = n
         /\ max_instr' = b
         /\ mem' = IF mem_size = n THEN mem ELSE EmptyDict
    /\ icnt' = 0
    /\ buf_out' = buf_out
    /\ ip' = 0
    /\ dp' = IF InRange(dp) THEN dp ELSE 0
    /\ writes' = << >>
    /\ ret' = NoRet
    /\ err' = "none"
    /\ pc' = "running"
    /\ UNCHANGED <<cls, canon, text>>
    /\ UNCHANGED trVars
    /\ UNCHANGED objVars

\* run(mem_size, max_instr) with a tape of 1..MaxMem cells and a budget of
\* -1 (none) or 0..MaxBudget.
RunStart == \E n \in 1..MaxMem, b \in -1..MaxBudget : RunWith(n, b)

\* run()
RunDefault == RunWith(DefaultMemSize, DefaultMaxInstr)

\* Mutant of OverBudget: the budget is never tested.
OverBudgetNever == FALSE

\* Line 138: the budget test at the head of an iteration.
OverBudget == icnt > max_instr /\ max_instr >= 0

\* The while loop is at an iteration that executes an operator.
AtStep(op) ==
    /\ pc = "running"
    /\ ip < c_len
    /\ ~OverBudget
    /\ icnt < MaxSteps
    /\ code[ip+1] = op

\* An exception leaves run(): nothing else changes.
Raise(e) ==
    /\ pc' = "raised"
    /\ err' = e
    /\ UNCHANGED <<cls, canon, text, calls_left, input_eof>>
    /\ UNCHANGED <<mem_size, max_instr, icnt, mem, buf_out, ip, dp, writes, ret>>
    /\ UNCHANGED trVars
    /\ UNCHANGED <<attrs, return_output, output, code, jumps, c_len>>

\* What no operator step changes.
StepFrame ==
    /\ UNCHANGED <<cls, canon, text, calls_left, pc, err, mem_size, max_instr, writes, ret>>
    /\ UNCHANGED trVars
    /\ UNCHANGED <<attrs, return_output, output, code, jumps, c_len>>

\* Lines 138-139
BudgetExceeded ==
    /\ pc = "running"
    /\ ip < c_len
    /\ OverBudget
    /\ Raise("BrainfuckError2")

\* Lines 143-144, 165-166
Increment ==
    /\ AtStep("+")
    /\ IF InRange(dp)
       THEN /\ mem' = Store(Index(dp), U8(Cell(Index(dp)) + 1))
            /\ ip' = ip + 1
            /\ icnt' = icnt + 1
            /\ UNCHANGED <<dp, buf_out, input_eof>>
            /\ StepFrame
       ELSE Raise("IndexError")

\* Lines 145-146, 165-166
Decrement ==
    /\ AtStep("-")
    /\ IF InRange(dp)
       THEN /\ mem' = Store(Index(dp), U8(Cell(Index(dp)) - 1))
            /\ ip' = ip + 1
            /\ icnt' = icnt + 1
            /\ UNCHANGED <<dp, buf_out, input_eof>>
            /\ StepFrame
       ELSE Raise("IndexError")

\* Mutant of MoveRight: the cell that is left is cleared.
MoveRightClearing ==
    /\ AtStep(">")
    /\ dp' = dp + 1
    /\ ip' = ip + 1
    /\ icnt' = icnt + 1
    /\ mem' = IF InRange(dp) THEN Store(Index(dp), 0) ELSE mem
    /\ UNCHANGED <<buf_out, input_eof>>
    /\ StepFrame

\* Lines 147-148, 165-166
MoveRight ==
    /\ AtStep(">")
    /\ dp' = dp + 1
    /\ ip' = ip + 1
    /\ icnt' = icnt + 1
    /\ UNCHANGED <<mem, buf_out, input_eof>>
    /\ StepFrame

\* Lines 149-150, 165-166
MoveLeft ==
    /\ AtStep("<")
    /\ dp' = dp - 1
    /\ ip' = ip + 1
    /\ icnt' = icnt + 1
    /\ UNCHANGED <<mem, buf_out, input_eof>>
    /\ StepFrame

\* Lines 151-153, 165-166
LoopOpen ==
    /\ AtStep("[")
    /\ IF InRange(dp)
       THEN /\ ip' = (IF Cell(Index(dp)) = 0 THEN jumps[ip] ELSE ip) + 1
            /\ icnt' = icnt + 1
            /\ UNCHANGED <<mem, dp, buf_out, input_eof>>
            /\ StepFrame
       ELSE Raise("IndexError")

\* Mutant of LoopClose: the jump back is taken when the cell holds 0.
LoopCloseInverted ==
    /\ AtStep("]")
    /\ IF InRange(dp)
       THEN /\ ip' = (IF Cell(Index(dp)) = 0 THEN jumps[ip] ELSE ip) + 1
            /\ icnt' = icnt + 1
            /\ UNCHANGED <<mem, dp, buf_out, input_eof>>
            /\ StepFrame
       ELSE Raise("IndexError")

\* Lines 154-156, 165-166
LoopClose ==
    /\ AtStep("]")
    /\ IF InRange(dp)
       THEN /\ ip' = (IF Cell(Index(dp)) # 0 THEN jumps[ip] ELSE ip) + 1
            /\ icnt' = icnt + 1
            /\ UNCHANGED <<mem, dp, buf_out, input_eof>>
            /\ StepFrame
       ELSE Raise("IndexError")

\* Mutant of Output: the byte is also written to the sink at once.
OutputUnbuffered ==
    /\ AtStep(".")
    /\ IF InRange(dp)
       THEN /\ buf_out' = Append(buf_out, Cell(Index(dp)))
            /\ writes' = Append(writes, <<Cell(Index(dp))>>)
            /\ output' = StreamWrite(output, <<Cell(Index(dp))>>)
            /\ ip' = ip + 1
            /\ icnt' = icnt + 1
            /\ UNCHANGED <<mem, dp, input_eof>>
            /\ UNCHANGED <<cls, canon, text, calls_left, pc, err, mem_size, max_instr, ret>>
            /\ UNCHANGED trVars
            /\ UNCHANGED <<attrs, return_output, code, jumps, c_len>>
       ELSE Raise("IndexError")

\* Lines 157-158, 165-166
Output ==
    /\ AtStep(".")
    /\ IF InRange(dp)
       THEN /\ buf_out' = Append(buf_out, Cell(Index(dp)))
            /\ ip' = ip + 1
            /\ icnt' = icnt + 1
            /\ UNCHANGED <<mem, dp, input_eof>>
            /\ StepFrame
       ELSE Raise("IndexError")

\* Line 163: the value stored when the read or the store raised.
Sentinel == U8(-1)

\* Lines 159-163, 165-166.  read(1) delivers a byte b, or '' (b = -1) at
\* the end of the input; ord('') raises and the handler stores -1.  With
\* dp out of range both stores raise IndexError, the second one uncaught.
Input ==
    /\ AtStep(",")
    /\ \E b \in (IF input_eof THEN {} ELSE InputAlphabet) \cup {-1} :
         /\ input_eof' = (b = -1)
         /\ IF InRange(dp)
            THEN /\ mem' = Store(Index(dp), IF b = -1 THEN Sentinel ELSE U8(b))
                 /\ ip' = ip + 1
                 /\ icnt' = icnt + 1
                 /\ UNCHANGED <<dp, buf_out>>
                 /\ StepFrame
            ELSE /\ pc' = "raised"
                 /\ err' = "IndexError"
                 /\ UNCHANGED <<cls, canon, text, calls_left>>
                 /\ UNCHANGED runVars
                 /\ UNCHANGED trVars
                 /\ UNCHANGED <<attrs, return_output, output, code, jumps, c_len>>

\* Lines 168-171: the loop has ended; decode, write once, return.
Flush ==
    /\ pc = "running"
    /\ ip >= c_len
    /\ LET s == Utf8Decode(buf_out)
       IN  IF s = <<-1>>
           THEN Raise("UnicodeDecodeError")
           ELSE /\ writes' = Append(writes, s)
                /\ IF return_output
                   THEN /\ output' = [StreamWrite(output, s) EXCEPT
                                          !.pos = Len(StreamWrite(output, s).content)]
                        /\ ret' = [some |-> TRUE,
                                   val |-> StreamRead([StreamWrite(output, s)
                                                         EXCEPT !.pos = 0])]
                   ELSE /\ output' = StreamWrite(output, s)
                        /\ ret' = NoRet
                /\ pc' = "returned"
                /\ err' = "none"
                /\ UNCHANGED <<cls, canon, text, calls_left>>
                /\ UNCHANGED <<mem_size, max_instr, icnt, mem, buf_out, ip, dp>>
                /\ UNCHANGED trVars
                /\ UNCHANGED <<attrs, return_output, input_eof, code, jumps, c_len>>

\* The state before the constructor is called: the class c, the text t, the
\* number n of run() invocations the caller makes afterwards.
Fresh(c, t, n) ==
    /\ cls = c
    /\ canon = << >>
    /\ text = t
    /\ pc = "new"
    /\ err = "none"
    /\ rcode = << >>
    /\ rpos = 0
    /\ rout = << >>
    /\ tc = 0
    /\ attrs = {}
    /\ output = [content |-> << >>, pos |-> 0]
    /\ input_eof = FALSE
    /\ code = << >>
    /\ jumps = EmptyDict
    /\ c_len = 0
    /\ mem_size = 0
    /\ max_instr = -1
    /\ icnt = 0
    /\ mem = EmptyDict
    /\ buf_out = << >>
    /\ ip = 0
    /\ dp = 0
    /\ writes = << >>
    /\ ret = NoRet
    /\ calls_left = n

\* Longer programs with loops that iterate and end: +[-] and ++[>++<-]>.
SamplePrograms ==
    { <<"+", "[", "-", "]">>,
      <<"+", "+", "[", ">", "+", "+", "<", "-", "]", ">", ".">> }

\* The engine: one run() of every program text of at most MaxCodeLen operators
\* and of the sample programs.
Init ==
    /\ return_output \in BOOLEAN
    /\ \E t \in Texts(OperatorSet, MaxCodeLen) \cup SamplePrograms :
          Fresh("Brainfuck", t, 1)

Next ==
    \/ BrainfuckInit
    \/ RunStart
    \/ BudgetExceeded
    \/ Increment
    \/ Decrement
    \/ MoveRight
    \/ MoveLeft
    \/ LoopOpen
    \/ LoopClose
    \/ Output
    \/ Input
    \/ Flush

Spec == Init /\ [][Next]_vars

\* +[+] increments one cell from 0 until it holds 0 again: 256 Increment
\* steps, one from each of the values 0..255.
WrapLoop == <<"+", "[", "+", "]">>

\* Cell arithmetic: one run() of every text of at most MaxWrapLen of the
\* operators that store into a cell, and of WrapLoop.
WrapTexts == Texts({"+", "-", ","}, MaxWrapLen) \cup {WrapLoop}

InitWrap ==
    /\ return_output \in BOOLEAN
    /\ \E t \in WrapTexts : Fresh("Brainfuck", t, 1)

NextWrap ==
    \/ BrainfuckInit
    \/ RunStart
    \/ BudgetExceeded
    \/ Increment
    \/ Decrement
    \/ LoopOpen
    \/ LoopClose
    \/ Input
    \/ Flush

SpecWrap == InitWrap /\ [][NextWrap]_vars

\* ++++++++[>++++++++<-]>. : 8 times 8 into cell 1, then its output.
Sample64 ==
    <<"+", "+", "+", "+", "+", "+", "+", "+", "[", ">",
      "+", "+", "+", "+", "+", "+", "+", "+", "<", "-", "]", ">", ".">>

\* The sample program run once with run()'s default tape and budget.
InitDefault ==
    /\ return_output \in BOOLEAN
    /\ Fresh("Brainfuck", Sample64, 1)

NextDefault ==
    \/ BrainfuckInit
    \/ RunDefault
    \/ Increment
    \/ Decrement
    \/ MoveRight
    \/ MoveLeft
    \/ LoopOpen
    \/ LoopClose
    \/ Output
    \/ Flush

SpecDefault == InitDefault /\ [][NextDefault]_vars

\* Lines 137-171: what the interpreter does next once it is inside run().
RunStep ==
    \/ BudgetExceeded
    \/ Increment
    \/ Decrement
    \/ MoveRight
    \/ MoveLeft
    \/ LoopOpen
    \/ LoopClose
    \/ Output
    \/ Input
    \/ Flush

\* The engine with a thread that keeps executing: inside run() the next
\* iteration of the while loop, or the flush after it, is eventually taken.
\* One run() of every program text of at most MaxFairLen operators, of the
\* endless loop +[] and of the sample programs.
FairTexts ==
    Texts(OperatorSet, MaxFairLen) \cup {<<"+", "[", "]">>} \cup SamplePrograms

InitFair ==
    /\ return_output \in BOOLEAN
    /\ \E t \in FairTexts : Fresh("Brainfuck", t, 1)

SpecFair == InitFair /\ [][Next]_vars /\ WF_vars(RunStep)

\* Re-runs: MaxRuns run() invocations on one constructed program, for every
\* program text of at most MaxRerunLen operators and the endless loop +[].
RerunTexts == Texts(OperatorSet, MaxRerunLen) \cup {<<"+", "[", "]">>}

InitRerun ==
    /\ return_output \in BOOLEAN
    /\ \E t \in RerunTexts : Fresh("Brainfuck", t, MaxRuns)

SpecRerun == InitRerun /\ [][Next]_vars

\* The validator: construction of every text of brackets, an operator and noise.
BracketAlphabet == {"[", "]", "+"} \cup Noise

InitValidator ==
    /\ return_output = TRUE
    /\ \E t \in Texts(BracketAlphabet, MaxBracketLen) : Fresh("Brainfuck", t, 0)

NextValidator == BrainfuckInit

SpecValidator == InitValidator /\ [][NextValidator]_vars

\* The translator: TripleHorseDeer construction of canonical/noisy texts, of
\* raw surface texts, of texts of at most MaxKanaLen token characters, and of
\* the surface text _b2r makes of a canonical/noisy text.
InitTranslator ==
    /\ return_output = TRUE
    /\ \/ \E t \in Texts(OperatorSet \cup Noise, MaxTextLen) \cup
                   Texts(Kana \cup OperatorSet \cup Noise, MaxSurfLen) \cup
                   Texts(Kana, MaxKanaLen) :
             Fresh("TripleHorseDeer", t, 0)
       \/ \E t \in Texts(OperatorSet \cup Noise, MaxTextLen) \cup
                   Texts(Kana \cup OperatorSet \cup Noise, MaxSurfLen) :
             /\ cls = "TripleHorseDeer"
             /\ canon = t
             /\ text = << >>
             /\ pc = "b2r"
             /\ err = "none"
             /\ rcode = << >>
             /\ rpos = 0
             /\ rout = << >>
             /\ tc = 0
             /\ attrs = {}
             /\ output = [content |-> << >>, pos |-> 0]
             /\ input_eof = FALSE
             /\ code = << >>
             /\ jumps = EmptyDict
             /\ c_len = 0
             /\ mem_size = 0
             /\ max_instr = -1
             /\ icnt = 0
             /\ mem = EmptyDict
             /\ buf_out = << >>
             /\ ip = 0
             /\ dp = 0
             /\ writes = << >>
             /\ ret = NoRet
             /\ calls_left = 0

NextTranslator ==
    \/ B2rCall
    \/ R2bBegin
    \/ R2bStep
    \/ R2bEnd

SpecTranslator == InitTranslator /\ [][NextTranslator]_vars

\* ================================================================ claims

\* C1 (as stated): a run that fails with the Resource-Exhausted error
\* (BrainfuckError 2) has executed exactly max_instr steps when it is raised.
C1_ExactlyBudgetSteps ==
    (pc = "raised" /\ err = "BrainfuckError2") => icnt = max_instr

\* C2 (as stated): no step of a run changes a tape cell while the Data
\* Pointer is outside [0, tape length): a move out of the tape has already
\* failed the run.
C2_NoWriteOutOfBounds ==
    [][(pc = "running" /\ mem' # mem) => (dp >= 0 /\ dp < mem_size)]_vars

\* C3 (as stated): the program ,. run with unlimited budget on an input that
\* delivers a byte b ends without error and its output is the one byte b.
C3_EchoEveryByte ==
    (/\ code = <<",", ".">>
     /\ "code" \in attrs
     /\ max_instr = -1
     /\ ~input_eof
     /\ ip >= 2
     /\ pc # "running")
    => (/\ pc = "returned"
        /\ err = "none"
        /\ buf_out = <<Cell(0)>>
        /\ writes = << <<Cell(0)>> >>)

\* C4 (as stated): a run() of a program constructed without a sink returns
\* exactly the bytes its own Output steps appended.
C4_ReturnsOwnOutput ==
    (pc = "returned" /\ return_output) =>
        (ret.some /\ ret.val = Utf8Decode(buf_out))

\* The text handed to the constructor consists of canonical operators only.
CanonicalText == \A i \in DOMAIN text : IsOperator(text[i])

\* The constructor of TripleHorseDeer has finished translating.
Translated == cls = "TripleHorseDeer" /\ pc \in {"constructed", "rejected"}

\* C5 (as stated): forward translation of a text of canonical operators
\* returns that same text.
C5_CanonicalPassThrough == (Translated /\ CanonicalText) => rout = text

\* C5 (amended): forward translation of a text of canonical operators
\* returns the empty text: every canonical operator character is discarded.
C5_CanonicalDiscarded == (Translated /\ CanonicalText) => rout = << >>

C5_Witness ==
    Translated /\ CanonicalText /\ Len(text) = MaxTextLen /\ rout = << >>

\* Every prefix of s has at least as many "[" as "]", and s has as many.
ProperlyNested(s) ==
    /\ \A k \in 0..Len(s) :
         Count(SubSeq(s, 1, k), "[") >= Count(SubSeq(s, 1, k), "]")
    /\ Count(s, "[") = Count(s, "]")

\* C6: construction succeeds exactly when the brackets of the stripped text
\* are properly nested, and a text with equal bracket counts that is not
\* properly nested is rejected with the unmatched-bracket error
\* (BrainfuckError 4).
C6_RejectsMisnested ==
    pc # "new" =>
        /\ (pc = "constructed") <=> ProperlyNested(Strip(text))
        /\ (Count(text, "[") = Count(text, "]") /\ ~ProperlyNested(Strip(text)))
             => (pc = "rejected" /\ err = "BrainfuckError4")

C6_Witness ==
    /\ pc = "rejected"
    /\ err = "BrainfuckError4"
    /\ Count(text, "[") = Count(text, "]")
    /\ Count(text, "[") >= 2

BracketPositions(c) == {p \in 0..(Len(c)-1) : c[p+1] \in {"[", "]"}}

\* C7: for a text whose brackets nest properly, construction stores a jump
\* table whose keys are exactly the bracket positions of the stripped text,
\* that is an involution, and that maps each "[" to a later "]" and each "]"
\* to an earlier "[".
C7_JumpTableSymmetric ==
    (pc # "new" /\ ProperlyNested(Strip(text))) =>
        /\ pc = "constructed"
        /\ code = Strip(text)
        /\ DOMAIN jumps = BracketPositions(code)
        /\ \A p \in DOMAIN jumps :
             /\ jumps[p] \in DOMAIN jumps
             /\ jumps[jumps[p]] = p
             /\ code[p+1] = "[" => (jumps[p] > p /\ code[jumps[p]+1] = "]")
             /\ code[p+1] = "]" => (jumps[p] < p /\ code[jumps[p]+1] = "[")

C7_Witness ==
    /\ pc = "constructed"
    /\ Cardinality(DOMAIN jumps) = 4
    /\ 0 \in DOMAIN jumps
    /\ jumps[0] = 3
    /\ Len(text) > Len(code)

\* C8: translating a text to surface form with _b2r and back with _r2b
\* yields the canonical operators of the text, in order.
C8_RoundTrip ==
    (Translated /\ text = B2r(canon)) => rout = Strip(canon)

C8_Witness ==
    /\ Translated
    /\ text = B2r(canon)
    /\ Len(canon) = MaxTextLen
    /\ Len(rout) = MaxTextLen - 1
    /\ rout[1] # rout[2]

\* C9 (as stated): an Input step whose read finds the input exhausted raises
\* no error, stores 255 in the current cell, moves on to the next operator,
\* and changes no other cell, nor the Data Pointer, nor the output buffer.
C9_SentinelOnExhaustedInput ==
    [][(AtStep(",") /\ input_eof') =>
          (/\ pc' = "running"
           /\ err' = "none"
           /\ InRange(dp)
           /\ mem' = Store(Index(dp), 255)
           /\ ip' = ip + 1
           /\ dp' = dp
           /\ buf_out' = buf_out)]_vars

\* C10: the sink receives no write while the run is executing, exactly one
\* write, the decoded whole buffer, when run() returns, and no write when
\* run() raises (Resource-Exhausted included).
C10_SingleFlush ==
    /\ pc = "running" => (writes = << >> /\ output.content = << >>)
    /\ pc = "raised" => (writes = << >> /\ output.content = << >>)
    /\ pc = "returned" =>
         /\ writes = <<Utf8Decode(buf_out)>>
         /\ output.content = Utf8Decode(buf_out)
         /\ (\A i \in DOMAIN buf_out : buf_out[i] < 128) => writes[1] = buf_out

C10_Witness ==
    /\ pc = "returned"
    /\ Len(buf_out) = 2
    /\ buf_out[1] # buf_out[2]
    /\ Len(writes) = 1

\* C11: a text with different numbers of "[" and "]" is rejected with the
\* count error (BrainfuckError 1) before code, jumps and c_len are assigned;
\* no tape, pointer or step counter is ever created and no run is started.
C11_UnbalancedRejectedEarly ==
    (pc # "new" /\ Count(text, "[") # Count(text, "]")) =>
        /\ pc = "rejected"
        /\ err = "BrainfuckError1"
        /\ attrs \cap {"code", "jumps", "c_len"} = {}
        /\ code = << >>
        /\ jumps = EmptyDict
        /\ mem = EmptyDict
        /\ mem_size = 0
        /\ icnt = 0 /\ ip = 0 /\ dp = 0
        /\ calls_left = 1
        /\ ~ENABLED RunStart

C11_Witness ==
    /\ pc = "rejected"
    /\ err = "BrainfuckError1"
    /\ Len(text) = MaxCodeLen
    /\ Count(text, "[") = 1
    /\ Count(text, "]") = 2

\* The Increment store (line 144) as a function of the value a cell holds,
\* and that store applied 2, 4, ... 256 times.
IncStore == [v \in 0..255 |-> U8(v + 1)]
Twice(f) == [v \in DOMAIN f |-> f[f[v]]]
Inc256 == Twice(Twice(Twice(Twice(Twice(Twice(Twice(Twice(IncStore))))))))

\* C12: cell arithmetic wraps modulo 256. Every cell of the tape holds a
\* value in 0..255 after every step; an Increment step takes a cell from v to
\* v+1 and from 255 to 0; a Decrement step on a cell holding 0 leaves 255 in
\* it; and from the value any cell holds, 256 Increment stores give that
\* value back.
C12_CellsWrapMod256 ==
    [][ /\ DOMAIN mem' \subseteq 0..(mem_size' - 1)
        /\ \A i \in 0..(mem_size' - 1) :
              /\ Cell(i)' \in 0..255
              /\ Inc256[Cell(i)'] = Cell(i)'
        /\ (AtStep("-") /\ icnt' = icnt + 1 /\ Cell(Index(dp)) = 0)
              => mem' = Store(Index(dp), 255)
        /\ (AtStep("+") /\ icnt' = icnt + 1)
              => mem' = Store(Index(dp),
                                IF Cell(Index(dp)) = 255 THEN 0
                                ELSE Cell(Index(dp)) + 1)
      ]_vars

\* The run of +[+] has ended: 256 Increment steps took the cell from 0
\* through every value back to 0.
C12_Witness ==
    /\ text = WrapLoop
    /\ pc = "returned"
    /\ icnt = 512
    /\ Cell(0) = 0

\* C13: ++++++++[>++++++++<-]>. run on the zero-filled tape of 30000 cells
\* without a budget never raises, keeps dp in 0..1, can always take a step
\* until it returns, returns after 107 steps and has then written exactly one
\* byte, 64.
C13_Sample64 ==
    /\ pc \notin {"rejected", "raised"}
    /\ pc \in {"running", "returned"} =>
          /\ mem_size = 30000
          /\ max_instr = -1
          /\ dp \in 0..1
          /\ icnt <= 107
          /\ DOMAIN mem \subseteq 0..1
    /\ pc = "running" =>
          /\ ENABLED NextDefault
          /\ buf_out = IF ip = c_len THEN <<64>> ELSE << >>
    /\ pc = "returned" =>
          /\ icnt = 107
          /\ ip = c_len
          /\ buf_out = <<64>>
          /\ writes = << <<64>> >>
          /\ output.content = <<64>>
          /\ return_output => ret = [some |-> TRUE, val |-> <<64>>]

C13_Witness ==
    /\ text = Sample64
    /\ pc = "returned"
    /\ mem_size = DefaultMemSize
    /\ buf_out = <<64>>
    /\ Cell(1) = 64

\* C14: every step that enters run() leaves ip, dp and the step counter at 0,
\* the output buffer empty and the tape all zero with the requested length,
\* whatever the previous run left behind; and once the program is constructed
\* no step changes code, jumps or c_len.
C14_FreshRunState ==
    [][ /\ (pc # "running" /\ pc' = "running") =>
              /\ ip' = 0
              /\ dp' = 0
              /\ icnt' = 0
              /\ buf_out' = << >>
              /\ mem_size' \in 1..MaxMem
              /\ \A i \in 0..(mem_size' - 1) : Cell(i)' = 0
        /\ pc # "new" => UNCHANGED <<code, jumps, c_len>>
      ]_vars

\* A later run has just started on a program whose earlier run wrote output
\* and left a non-zero tape behind.
C14_Witness ==
    /\ pc = "running"
    /\ icnt = 0
    /\ calls_left < MaxRuns - 1
    /\ output.content # << >>
    /\ \A i \in 0..(mem_size - 1) : Cell(i) = 0
    /\ code = <<"+", ".">>

\* The step of a "[" or "]" as the loop-control rule describes it: past the
\* partner when the cell decides so, else one further; one more step counted;
\* tape and dp as they were.
LoopControlStep ==
    /\ AtStep("[") =>
          ip' = (IF InRange(dp) /\ Cell(Index(dp)) = 0 THEN jumps[ip] ELSE ip) + 1
    /\ AtStep("]") =>
          ip' = (IF InRange(dp) /\ Cell(Index(dp)) # 0 THEN jumps[ip] ELSE ip) + 1
    /\ (AtStep("[") \/ AtStep("]")) =>
          /\ icnt' = icnt + 1
          /\ mem' = mem
          /\ dp' = dp

\* C15: every step taken at a "[" or a "]" is a LoopControlStep.
C15_LoopControl == [][LoopControlStep]_vars

\* The same for steps taken with dp inside the tape.
C15_LoopControlInside == [][InRange(dp) => LoopControlStep]_vars

\* The translator is about to read a character that only one token has at
\* offset tc.
SingleCandidate ==
    /\ pc = "r2b"
    /\ rpos < Len(rcode)
    /\ \A i \in DOMAIN rep_operators : Len(rep_operators[i]) > tc
    /\ Len(Candidates(tc, rcode[rpos+1])) = 1

\* A text no longer than the token its first character starts has been
\* translated to that token's operator alone.
FirstCharDecides ==
    (Translated /\ text # << >>) =>
        \A i \in DOMAIN rep_operators :
            (text[1] = rep_operators[i][1] /\ Len(text) <= Len(rep_operators[i]))
                => rout = <<operators[i]>>

\* C16: early commit. A step that reads a character with a single candidate
\* token appends that token's operator and moves the read position past the
\* rest of the token's length, whatever the characters there are; so a text
\* that only starts with a token's first character and is no longer than the
\* token translates to that token's operator, and a token lying in the
\* skipped span adds nothing.
C16_EarlyCommit ==
    [][ /\ SingleCandidate =>
              LET tok == Candidates(tc, rcode[rpos+1])[1]
              IN  /\ rout' = Append(rout, operators[IndexOf(rep_operators, tok)])
                  /\ rpos' = rpos + Len(tok) - tc
                  /\ tc' = 0
                  /\ pc' = "r2b"
        /\ FirstCharDecides'
      ]_vars

\* "i to ko": the token "to ko" lies in the span skipped after "i".
C16_Witness ==
    /\ Translated
    /\ text = <<"i", "to", "ko">>
    /\ rout = <<"+">>

\* C19: with the built-in tokens (eight, first characters pairwise distinct)
\* the prefix-match length tc is 0 whenever a character is read, no character
\* has more than one candidate token, the translator raises neither the
\* conflict Exception nor an IndexError, and the output is never longer than
\* the input.
C19_NoAmbiguity ==
    /\ Len(rep_operators) = 8
    /\ \A i, j \in DOMAIN rep_operators :
          i # j => rep_operators[i][1] # rep_operators[j][1]
    /\ tc = 0
    /\ err \notin {"Exception", "IndexError"}
    /\ Len(rout) <= Len(rcode)
    /\ (pc = "r2b" /\ rpos < Len(rcode)) =>
          Len(Candidates(tc, rcode[rpos+1])) <= 1

\* "to" has been committed and "ko" skipped; "sa" is about to be read.
C19_Witness ==
    /\ pc = "r2b"
    /\ rcode = <<"to", "ko", "sa">>
    /\ rpos = 2
    /\ rout = <<"-">>

\* C18: frame conditions of a step of a run. The tape changes only in a
\* "+", "-" or "," step, keeps its length, and changes only at the cell dp
\* addresses; dp changes only in a ">" step (+1) or a "<" step (-1); the
\* output buffer changes only in a "." step, which appends the current cell
\* and leaves the tape as it was.
C18_StepFrame ==
    [][ pc = "running" =>
          /\ mem' # mem =>
                /\ AtStep("+") \/ AtStep("-") \/ AtStep(",")
                /\ InRange(dp)
                /\ mem_size' = mem_size
                /\ \A i \in 0..(mem_size - 1) : i # Index(dp) => Cell(i)' = Cell(i)
          /\ dp' # dp =>
                \/ AtStep(">") /\ dp' = dp + 1
                \/ AtStep("<") /\ dp' = dp - 1
          /\ (AtStep(">") /\ icnt' = icnt + 1) => dp' = dp + 1
          /\ (AtStep("<") /\ icnt' = icnt + 1) => dp' = dp - 1
          /\ buf_out' # buf_out => AtStep(".")
          /\ (AtStep(".") /\ icnt' = icnt + 1) =>
                /\ buf_out' = Append(buf_out, Cell(Index(dp)))
                /\ mem' = mem
      ]_vars

\* The run of ++[>++<-]>. has returned: it has stored into both cells, moved
\* right and left and appended cell 1 to the output buffer.
C18_Witness ==
    /\ code = <<"+", "+", "[", ">", "+", "+", "<", "-", "]", ">", ".">>
    /\ pc = "returned"
    /\ mem_size = 2
    /\ dp = 1
    /\ Cell(0) = 0
    /\ Cell(1) = 4
    /\ buf_out = <<4>>

RunEndings ==
    /\ (pc \in {"running", "returned", "raised"} /\ max_instr >= 0) =>
          icnt <= max_instr + 1
    /\ pc = "returned" => ip = c_len /\ err = "none"
    /\ pc = "raised" =>
          \/ err = "BrainfuckError2" /\ ip < c_len /\ icnt = max_instr + 1
          \/ err = "IndexError" /\ ip < c_len /\ ~InRange(dp)
          \/ err = "UnicodeDecodeError" /\ ip = c_len
    /\ (text = <<"+", "[", "]">> /\ max_instr = -1
          /\ pc \in {"running", "returned", "raised"}) =>
          /\ pc = "running"
          /\ err = "none"
          /\ ip < c_len
          /\ icnt < MaxSteps => ENABLED RunStep

====
